---- MODULE Spec2Model ----
(***************************************************************************)
(* Model of emulator/emulator-extern.cpp: the C boundary of the TON        *)
(* transaction emulator and TVM emulator.                                  *)
(*                                                                         *)
(*  - the stack-value codec (from_emulator_api, StackEntryJsonable),       *)
(*  - the three response envelopes of transaction emulation,               *)
(*  - transaction_emulator_emulate_transaction and                         *)
(*    tvm_emulator_run_get_method,                                         *)
(*  - the setters of both engine handles.                                  *)
(*                                                                         *)
(* Text (td::Slice / std::string) is a tagged record: plain text is a      *)
(* sequence of fragments, base64 text carries the bytes it encodes.        *)
(* JSON values are trees tagged by td::JsonValue::Type.                    *)
(***************************************************************************)
EXTENDS Integers, Sequences, FiniteSets, TLC

\* ------------------------------------------------------------------------
\* Bounds of the model
\* ------------------------------------------------------------------------
MaxInt == 12
MaxBits == 2
MaxTupleLen == 2
MaxDepth == 2
MaxTime == 1
MaxVal == 1
NumConfigs == 2
NumLibs == 1

\* ------------------------------------------------------------------------
\* td::Result / td::Status
\* ------------------------------------------------------------------------
Ok(v) == [ok |-> TRUE, val |-> v]
Err(m) == [ok |-> FALSE, val |-> m]

\* ------------------------------------------------------------------------
\* Text
\* ------------------------------------------------------------------------
\* plain text made of the given fragments
Plain(chars) == [enc |-> "text", chars |-> chars]
\* a literal such as "cell"
Str(s) == Plain(<<s>>)
\* text that is the base64 form of bytes
B64(bytes) == [enc |-> "base64", bytes |-> bytes]

\* td::base64_encode
base64_encode(bytes) == B64(bytes)

\* td::base64_decode: fails on text that is not base64
base64_decode(text) ==
  IF text.enc = "base64" THEN Ok(text.bytes)
  ELSE Err("Wrong character in the string")

\* ------------------------------------------------------------------------
\* Cells and bags of cells
\* ------------------------------------------------------------------------
\* a data cell of the stack machine: its bits, and whether a bag of cells
\* can be built from it
DataCell(bits, ser) == [ct |-> "data", bits |-> bits, serializable |-> ser]

\* bytes that are no bag of cells
RawBytes == [fmt |-> "raw"]
\* bytes of a bag of cells with one root and a CRC32C that is valid or not
BocBytes(root, crc) == [fmt |-> "boc", root |-> root, crc32c |-> crc]

\* vm::std_boc_serialize(cell, Mode::WithCRC32C)
std_boc_serialize(cell) ==
  IF ~cell.serializable
  THEN Err("error while importing a cell into a bag of cells")
  ELSE Ok(BocBytes(cell, TRUE))

\* vm::std_boc_deserialize
std_boc_deserialize(bytes) ==
  IF bytes.fmt # "boc" THEN Err("cannot deserialize bag-of-cells: invalid header")
  ELSE IF ~bytes.crc32c THEN Err("bag-of-cells CRC32C mismatch")
  ELSE Ok(bytes.root)

\* vm::CellSlice: a cell and the number of bits already consumed
CellSlice(cell, pos) == [cell |-> cell, bits_st |-> pos]

\* vm::load_cell_slice_ref: a slice over the whole cell
load_cell_slice_ref(cell) == CellSlice(cell, 0)

\* vm::CellBuilder().append_cellslice(slice).finalize(): a fresh cell holding
\* what remains of the slice
append_cellslice_finalize(slice) ==
  DataCell(SubSeq(slice.cell.bits, slice.bits_st + 1, Len(slice.cell.bits)),
           slice.cell.serializable)

\* ------------------------------------------------------------------------
\* Decimal text of integers
\* ------------------------------------------------------------------------
Digits == <<"0", "1", "2", "3", "4", "5", "6", "7", "8", "9">>

DigitVal(c) == (CHOOSE i \in 1..10 : Digits[i] = c) - 1

IsDigit(c) == \E i \in 1..10 : Digits[i] = c

RECURSIVE NatDigits(_)
NatDigits(n) == IF n < 10 THEN <<Digits[n + 1]>>
                ELSE NatDigits(n \div 10) \o <<Digits[(n % 10) + 1]>>

RECURSIVE DigitsNat(_)
DigitsNat(cs) == IF cs = <<>> THEN 0
                 ELSE 10 * DigitsNat(SubSeq(cs, 1, Len(cs) - 1)) + DigitVal(cs[Len(cs)])

\* the null td::RefInt256
NullInt == [isnull |-> TRUE]
RefInt(n) == [isnull |-> FALSE, n |-> n]

\* td::dec_string
dec_string(n) == IF n < 0 THEN Plain(<<"-">> \o NatDigits(0 - n)) ELSE Plain(NatDigits(n))

\* td::dec_string_to_int256: null unless the whole text is a decimal number
dec_string_to_int256(text) ==
  IF text.enc # "text" THEN NullInt
  ELSE LET cs == text.chars
           neg == cs # <<>> /\ cs[1] = "-"
           ds == IF neg THEN Tail(cs) ELSE cs
       IN IF ds = <<>> \/ \E i \in 1..Len(ds) : ~IsDigit(ds[i]) THEN NullInt
          ELSE RefInt(IF neg THEN 0 - DigitsNat(ds) ELSE DigitsNat(ds))

\* ------------------------------------------------------------------------
\* JSON values (td::JsonValue)
\* ------------------------------------------------------------------------
JNull == [jt |-> "Null"]
JBool(b) == [jt |-> "Boolean", b |-> b]
JNumber(n) == [jt |-> "Number", num |-> n]
JString(text) == [jt |-> "String", str |-> text]
JArray(arr) == [jt |-> "Array", arr |-> arr]
\* an object is the sequence of its <<key, value>> fields
JObject(fields) == [jt |-> "Object", fields |-> fields]

HasField(object, name) == \E i \in 1..Len(object) : object[i][1] = name

FirstField(object, name) ==
  object[CHOOSE i \in 1..Len(object) :
           object[i][1] = name /\ \A j \in 1..(i - 1) : object[j][1] # name][2]

\* td::get_json_object_field with is_optional = false
get_json_object_field(object, name, type) ==
  IF ~HasField(object, name) THEN Err("Can't find field")
  ELSE IF FirstField(object, name).jt # type THEN Err("Field must be of another type")
  ELSE Ok(FirstField(object, name))

\* td::get_json_object_string_field with is_optional = false
get_json_object_string_field(object, name) ==
  LET value == get_json_object_field(object, name, "String")
  IN IF value.ok THEN Ok(value.val.str) ELSE value

\* ------------------------------------------------------------------------
\* Stack entries (vm::StackEntry)
\* ------------------------------------------------------------------------
NullEntry == [t |-> "t_null"]
IntEntry(n) == [t |-> "t_int", int |-> n]
CellEntry(c) == [t |-> "t_cell", cell |-> c]
SliceEntry(s) == [t |-> "t_slice", slice |-> s]
TupleEntry(es) == [t |-> "t_tuple", elems |-> es]
\* a variant the codec does not support
BuilderEntry == [t |-> "t_builder"]

\* ------------------------------------------------------------------------
\* Decode: from_emulator_api
\* ------------------------------------------------------------------------
\* the `type == "cell"` branch
decode_cell(object) ==
  LET value == get_json_object_field(object, "value", "String")
  IN IF ~value.ok THEN value
     ELSE LET boc_decoded == base64_decode(value.val.str)
          IN IF ~boc_decoded.ok THEN boc_decoded
             ELSE LET cell == std_boc_deserialize(boc_decoded.val)
                  IN IF ~cell.ok THEN cell ELSE Ok(CellEntry(cell.val))

\* the `type == "cell_slice"` branch
decode_cell_slice(object) ==
  LET value == get_json_object_field(object, "value", "String")
  IN IF ~value.ok THEN value
     ELSE LET boc_decoded == base64_decode(value.val.str)
          IN IF ~boc_decoded.ok THEN boc_decoded
             ELSE LET cell == std_boc_deserialize(boc_decoded.val)
                  IN IF ~cell.ok THEN cell
                     ELSE Ok(SliceEntry(load_cell_slice_ref(cell.val)))

\* the `type == "number"` branch
decode_number(object) ==
  LET value == get_json_object_field(object, "value", "String")
  IN IF ~value.ok THEN value
     ELSE LET num == dec_string_to_int256(value.val.str)
          IN IF num.isnull THEN Err("Error parsing string to int256")
             ELSE Ok(IntEntry(num.n))

\* the `type == "null"` branch: the value field is not read
decode_null(object) == Ok(NullEntry)

unsupported_type_accepted(type) == Ok(NullEntry)

\* the fall-through after the five type branches
unsupported_type(type) == Err("Unsupported type")

RECURSIVE from_emulator_api(_)
RECURSIVE decode_elements(_)

\* the loop of the `type == "tuple"` branch: the first failing element ends it
decode_elements(array) ==
  IF array = <<>> THEN Ok(<<>>)
  ELSE LET new_element == from_emulator_api(Head(array))
       IN IF ~new_element.ok THEN new_element
          ELSE LET rest == decode_elements(Tail(array))
               IN IF ~rest.ok THEN rest ELSE Ok(<<new_element.val>> \o rest.val)

\* the `type == "tuple"` branch
decode_tuple(object) ==
  LET value == get_json_object_field(object, "value", "Array")
  IN IF ~value.ok THEN value
     ELSE LET elements == decode_elements(value.val.arr)
          IN IF ~elements.ok THEN elements ELSE Ok(TupleEntry(elements.val))

from_emulator_api(entry) ==
  IF entry.jt # "Object" THEN Err("Stack entry of object type expected")
  ELSE LET object == entry.fields
           type == get_json_object_string_field(object, "type")
       IN IF ~type.ok THEN type
          ELSE IF type.val = Str("cell") THEN decode_cell(object)
          ELSE IF type.val = Str("cell_slice") THEN decode_cell_slice(object)
          ELSE IF type.val = Str("number") THEN decode_number(object)
          ELSE IF type.val = Str("tuple") THEN decode_tuple(object)
          ELSE IF type.val = Str("null") THEN decode_null(object)
          ELSE unsupported_type(type.val)

\* ------------------------------------------------------------------------
\* Encode: StackEntryJsonable::store
\* ------------------------------------------------------------------------
\* the encoder returned this JSON
Stored(json) == [done |-> TRUE, json |-> json]
\* a CHECK failed: the process aborted and nothing was returned
Aborted == [done |-> FALSE]

TypeValueObject(type, value) ==
  JObject(<<<<"type", JString(Str(type))>>, <<"value", value>>>>)

\* case t_cell: CHECK(boc.is_ok()) aborts when the cell cannot be serialized
store_cell(entry) ==
  LET boc == std_boc_serialize(entry.cell)
  IN IF ~boc.ok THEN Aborted
     ELSE Stored(TypeValueObject("cell", JString(base64_encode(boc.val))))

store_slice_whole_cell(entry) ==
  LET boc == std_boc_serialize(entry.slice.cell)
  IN IF ~boc.ok THEN Aborted
     ELSE Stored(TypeValueObject("cell_slice", JString(base64_encode(boc.val))))

\* case t_slice: boc.move_as_ok() on an error aborts likewise
store_slice(entry) ==
  LET cell == append_cellslice_finalize(entry.slice)
      boc == std_boc_serialize(cell)
  IN IF ~boc.ok THEN Aborted
     ELSE Stored(TypeValueObject("cell_slice", JString(base64_encode(boc.val))))

\* case t_int
store_int(entry) == Stored(TypeValueObject("number", JString(dec_string(entry.int))))

\* case t_null
store_null(entry) == Stored(TypeValueObject("null", JNull))

\* default
store_default(entry) == Stored(TypeValueObject("UNSUPPORTED STACK ENTRY TYPE", JNull))

RECURSIVE store(_)
RECURSIVE store_elements(_)

\* the loop `array << StackEntryJsonable(x)` over the tuple's elements
store_elements(elems) ==
  IF elems = <<>> THEN Stored(<<>>)
  ELSE LET x == store(Head(elems))
       IN IF ~x.done THEN Aborted
          ELSE LET rest == store_elements(Tail(elems))
               IN IF ~rest.done THEN Aborted ELSE Stored(<<x.json>> \o rest.json)

\* case t_tuple
store_tuple(entry) ==
  LET array == store_elements(entry.elems)
  IN IF ~array.done THEN Aborted
     ELSE Stored(TypeValueObject("tuple", JArray(array.json)))

store(entry) ==
  CASE entry.t = "t_cell" -> store_cell(entry)
    [] entry.t = "t_slice" -> store_slice(entry)
    [] entry.t = "t_int" -> store_int(entry)
    [] entry.t = "t_tuple" -> store_tuple(entry)
    [] entry.t = "t_null" -> store_null(entry)
    [] OTHER -> store_default(entry)

\* StackJsonable::store: the array of the encoded entries, bottom first
StackJsonable(stack) ==
  LET array == store_elements(stack)
  IN IF ~array.done THEN Aborted ELSE Stored(JArray(array.json))

\* ------------------------------------------------------------------------
\* Inputs of the codec
\* ------------------------------------------------------------------------
SeqsUpTo(S, n) == UNION {[1..k -> S] : k \in 0..n}

BitSeqs == SeqsUpTo({0, 1}, MaxBits)

GoodCells == {DataCell(b, TRUE) : b \in BitSeqs}

\* a cell from which no bag of cells can be built
HugeCell == DataCell(<<1>>, FALSE)

Slices == {s \in [cell : GoodCells \cup {HugeCell}, bits_st : 0..MaxBits] :
             s.bits_st <= Len(s.cell.bits)}

Leaves ==
  {IntEntry(n) : n \in (0 - MaxInt)..MaxInt}
    \cup {CellEntry(c) : c \in GoodCells \cup {HugeCell}}
    \cup {SliceEntry(s) : s \in Slices}
    \cup {NullEntry, BuilderEntry}

\* the entries nested tuples are built from
NestLeaves ==
  {IntEntry(0 - MaxInt), CellEntry(DataCell(<<1>>, TRUE)),
   SliceEntry(CellSlice(DataCell(<<0, 1>>, TRUE), 1)), NullEntry}

\* the ways to put one nested element among at most MaxTupleLen - 1 others
Around(S) ==
  {q \in SeqsUpTo(S, MaxTupleLen - 1) \X SeqsUpTo(S, MaxTupleLen - 1) :
     Len(q[1]) + Len(q[2]) < MaxTupleLen}

\* tuples nested at most d deep, with at most one nested tuple per level
RECURSIVE TuplesOfDepth(_)
TuplesOfDepth(d) ==
  IF d = 0 THEN {}
  ELSE {TupleEntry(es) : es \in SeqsUpTo(NestLeaves, MaxTupleLen)}
         \cup {TupleEntry(q[1] \o <<t>> \o q[2]) :
                 t \in TuplesOfDepth(d - 1), q \in Around(NestLeaves)}

StackValues ==
  Leaves \cup {TupleEntry(<<l>>) : l \in Leaves} \cup TuplesOfDepth(MaxDepth)

\* JSON elements that are no well-formed stack entry, and a few that are
JsonLeaves ==
  {JNull, JBool(TRUE), JNumber(1), JString(Str("cell")), JArray(<<>>), JArray(<<JNull>>),
   JObject(<<>>),
   JObject(<<<<"value", JNull>>>>),
   JObject(<<<<"type", JNumber(1)>>, <<"value", JNull>>>>),
   JObject(<<<<"type", JNull>>, <<"value", JNull>>>>),
   JObject(<<<<"type", JArray(<<>>)>>, <<"value", JNull>>>>),
   TypeValueObject("bogus", JNull),
   TypeValueObject("Cell", JString(base64_encode(BocBytes(DataCell(<<1>>, TRUE), TRUE)))),
   TypeValueObject("UNSUPPORTED STACK ENTRY TYPE", JNull),
   JObject(<<<<"type", JString(Str("cell"))>>>>),
   TypeValueObject("cell", JNumber(1)),
   TypeValueObject("cell", JString(Str("not base64!"))),
   TypeValueObject("cell", JString(base64_encode(RawBytes))),
   TypeValueObject("cell", JString(base64_encode(BocBytes(DataCell(<<1>>, TRUE), FALSE)))),
   TypeValueObject("cell_slice", JString(base64_encode(RawBytes))),
   TypeValueObject("cell_slice", JNull),
   TypeValueObject("number", JNumber(5)),
   TypeValueObject("number", JString(Plain(<<"1", "x">>))),
   TypeValueObject("number", JString(Plain(<<>>))),
   TypeValueObject("number", JString(Plain(<<"-">>))),
   TypeValueObject("number", JString(Plain(<<"0", "0", "7">>))),
   TypeValueObject("tuple", JNull),
   TypeValueObject("tuple", JString(Str("[]"))),
   JObject(<<<<"type", JString(Str("tuple"))>>>>),
   JObject(<<<<"type", JString(Str("null"))>>>>),
   JObject(<<<<"value", JArray(<<>>)>>, <<"type", JString(Str("tuple"))>>>>),
   JObject(<<<<"type", JString(Str("null"))>>, <<"type", JString(Str("bogus"))>>>>),
   JObject(<<<<"type", JString(Str("bogus"))>>, <<"type", JString(Str("null"))>>>>)}

\* the elements nested JSON tuples are built from
NestJson ==
  {TypeValueObject("number", JString(Plain(<<"7">>))),
   TypeValueObject("bogus", JNull),
   JNull}

RECURSIVE JsonTuplesOfDepth(_)
JsonTuplesOfDepth(d) ==
  IF d = 0 THEN {}
  ELSE {TypeValueObject("tuple", JArray(es)) : es \in SeqsUpTo(NestJson, MaxTupleLen)}
         \cup {TypeValueObject("tuple", JArray(q[1] \o <<t>> \o q[2])) :
                 t \in JsonTuplesOfDepth(d - 1), q \in Around(NestJson)}

JsonInputs ==
  JsonLeaves \cup {TypeValueObject("tuple", JArray(<<l>>)) : l \in JsonLeaves}
    \cup JsonTuplesOfDepth(MaxDepth)

\* ------------------------------------------------------------------------
\* Hex text
\* ------------------------------------------------------------------------
\* the length of the hex text of a random seed
SeedHexLen == 64

HexLower == <<"0", "1", "2", "3", "4", "5", "6", "7", "8", "9",
              "a", "b", "c", "d", "e", "f">>

HexUpper == <<"0", "1", "2", "3", "4", "5", "6", "7", "8", "9",
              "A", "B", "C", "D", "E", "F">>

IsHex(c) == \E i \in 1..16 : HexLower[i] = c \/ HexUpper[i] = c

HexVal(c) == (CHOOSE i \in 1..16 : HexLower[i] = c \/ HexUpper[i] = c) - 1

\* td::hex_decode: two digits per byte
hex_decode(text) ==
  IF text.enc # "text" THEN Err("Wrong hex string")
  ELSE LET cs == text.chars
       IN IF Len(cs) % 2 # 0 THEN Err("Wrong hex string length")
          ELSE IF \E i \in 1..Len(cs) : ~IsHex(cs[i]) THEN Err("Wrong hex string")
          ELSE Ok([i \in 1..(Len(cs) \div 2) |->
                     16 * HexVal(cs[2 * i - 1]) + HexVal(cs[2 * i])])

\* td::Bits256::to_hex
to_hex(bytes) ==
  Plain([i \in 1..(2 * Len(bytes)) |->
           IF i % 2 = 1 THEN HexUpper[(bytes[(i + 1) \div 2] \div 16) + 1]
           ELSE HexUpper[(bytes[i \div 2] % 16) + 1]])

\* td::Slice(rand_seed_hex).size()
SliceSize(text) == IF text.enc = "text" THEN Len(text.chars) ELSE 0

\* ------------------------------------------------------------------------
\* Blockchain records carried by cells
\* ------------------------------------------------------------------------
\* MsgAddressInt: addr_std$10 or addr_var$11
AddrStd(wc, addr) == [tag |-> "addr_std", wc |-> wc, addr |-> addr]
AddrVar == [tag |-> "addr_var"]

\* block::tlb::t_MsgAddressInt.extract_std_address
extract_std_address(addr_slice) ==
  IF addr_slice.tag = "addr_std" THEN Ok([wc |-> addr_slice.wc, addr |-> addr_slice.addr])
  ELSE Err("not a standard address")

\* a message cell: the tag of its CommonMsgInfo ("none" when no tag matches),
\* whether the header unpacks, and the dest field of the header
MsgCell(tag, wf, dest) == [ct |-> "msg", tag |-> tag, wellformed |-> wf, dest |-> dest]

\* block::gen::t_CommonMsgInfo.get_tag
msg_get_tag(message_cs) == message_cs.tag

\* tlb::unpack(message_cs, info) for Record_ext_in_msg_info / Record_int_msg_info
msg_unpack(message_cs) ==
  IF message_cs.wellformed THEN Ok([dest |-> message_cs.dest]) ELSE Err("unpack failed")

\* Account: account_none$0 or account$1 with its addr field
AccountNone == [tag |-> "account_none"]
AccountRecord(wf, addr) == [tag |-> "account", wellformed |-> wf, addr |-> addr]

\* a ShardAccount cell: whether it unpacks, its account, and whether
\* block::Account::unpack accepts it
ShardAccountCell(wf, account, state_ok) ==
  [ct |-> "shard_account", wellformed |-> wf, account |-> account, state_ok |-> state_ok]

\* tlb::unpack(shard_account_slice, shard_account)
shard_account_unpack(cell) ==
  IF cell.wellformed THEN Ok([account |-> cell.account]) ELSE Err("unpack failed")

\* tlb::unpack(account_slice, account_record)
account_unpack(account) ==
  IF account.wellformed THEN Ok([addr |-> account.addr]) ELSE Err("unpack failed")

\* block::Account::unpack
block_account_unpack(cell) == cell.state_ok

\* ------------------------------------------------------------------------
\* Response envelopes of transaction emulation
\* ------------------------------------------------------------------------
success_response_without_account(transaction, new_shard_account, vm_log) ==
  [success |-> TRUE, transaction |-> transaction, vm_log |-> vm_log]

success_response(transaction, new_shard_account, vm_log) ==
  [success |-> TRUE, transaction |-> transaction, shard_account |-> new_shard_account,
   vm_log |-> vm_log]

error_response(error) == [success |-> FALSE, error |-> error]

external_not_accepted_response(vm_log, vm_exit_code) ==
  [success |-> FALSE, error |-> Str("External message not accepted by smart contract"),
   vm_log |-> vm_log, vm_exit_code |-> vm_exit_code]

\* PSTRING() << prefix << status
Msg(prefix, cause) == Plain(<<prefix, cause>>)

\* ------------------------------------------------------------------------
\* The execution engine (external): what a call hands back
\* ------------------------------------------------------------------------
\* td::Result error of TransactionEmulator::emulate_transaction
EmuError(cause) == [kind |-> "error", message |-> cause]
\* EmulationExternalNotAccepted
EmuNotAccepted(vm_log, vm_exit_code) ==
  [kind |-> "external_not_accepted", vm_log |-> vm_log, vm_exit_code |-> vm_exit_code]
\* EmulationSuccess
EmuSuccess(transaction, account, vm_log) ==
  [kind |-> "success", transaction |-> transaction, account |-> account, vm_log |-> vm_log]

\* ton::masterchainId
masterchainId == 0 - 1

\* block::Config::is_special_smartcontract
is_special_smartcontract(config, addr) == addr \in config.root.special

\* ------------------------------------------------------------------------
\* transaction_emulator_emulate_transaction
\* ------------------------------------------------------------------------
resolve_addr_slice_from_message(account, msg_tag, message_cs) ==
  LET info == msg_unpack(message_cs)
  IN IF ~info.ok THEN Err(Str("Can't unpack inbound external message"))
     ELSE Ok(info.val.dest)

resolve_addr_slice_any_kind(account, msg_tag, message_cs) ==
  IF account.tag = "account_none"
  THEN LET info == msg_unpack(message_cs)
       IN IF ~info.ok THEN Err(Str("Can't unpack inbound external message"))
          ELSE Ok(info.val.dest)
  ELSE LET account_record == account_unpack(account)
       IN IF ~account_record.ok THEN Err(Str("Can't unpack account cell"))
          ELSE Ok(account_record.val.addr)

resolve_addr_slice_kind_first(account, msg_tag, message_cs) ==
  IF msg_tag \notin {"ext_in_msg_info", "int_msg_info"}
  THEN Err(Str("Only ext in and int message are supported"))
  ELSE IF account.tag = "account_none"
  THEN LET info == msg_unpack(message_cs)
       IN IF ~info.ok THEN Err(Str("Can't unpack inbound message"))
          ELSE Ok(info.val.dest)
  ELSE LET account_record == account_unpack(account)
       IN IF ~account_record.ok THEN Err(Str("Can't unpack account cell"))
          ELSE Ok(account_record.val.addr)

\* the choice of addr_slice: from the message when the account is
\* account_none, from the account record otherwise
resolve_addr_slice(account, msg_tag, message_cs) ==
  IF account.tag = "account_none"
  THEN IF msg_tag = "ext_in_msg_info"
       THEN LET info == msg_unpack(message_cs)
            IN IF ~info.ok THEN Err(Str("Can't unpack inbound external message"))
               ELSE Ok(info.val.dest)
       ELSE IF msg_tag = "int_msg_info"
       THEN LET info == msg_unpack(message_cs)
            IN IF ~info.ok THEN Err(Str("Can't unpack inbound internal message"))
               ELSE Ok(info.val.dest)
       ELSE Err(Str("Only ext in and int message are supported"))
  ELSE LET account_record == account_unpack(account)
       IN IF ~account_record.ok THEN Err(Str("Can't unpack account cell"))
          ELSE Ok(account_record.val.addr)

\* everything before the engine call: the account and the message cell the
\* engine is to be called with, or the message of the error response
emulate_prepare(emulator, shard_account_boc, message_boc) ==
  LET message_decoded == base64_decode(message_boc)
  IN IF ~message_decoded.ok
     THEN Err(Msg("Can't decode base64 message boc: ", message_decoded.val))
     ELSE
  LET message_cell_r == std_boc_deserialize(message_decoded.val)
  IN IF ~message_cell_r.ok
     THEN Err(Msg("Can't deserialize message boc: ", message_cell_r.val))
     ELSE
  LET message_cell == message_cell_r.val
      msg_tag == msg_get_tag(message_cell)
      shard_account_decoded == base64_decode(shard_account_boc)
  IN IF ~shard_account_decoded.ok
     THEN Err(Msg("Can't decode base64 shard account boc: ", shard_account_decoded.val))
     ELSE
  LET shard_account_cell == std_boc_deserialize(shard_account_decoded.val)
  IN IF ~shard_account_cell.ok
     THEN Err(Msg("Can't deserialize shard account boc: ", shard_account_cell.val))
     ELSE
  LET shard_account == shard_account_unpack(shard_account_cell.val)
  IN IF ~shard_account.ok THEN Err(Str("Can't unpack shard account cell"))
     ELSE
  LET addr_slice == resolve_addr_slice(shard_account.val.account, msg_tag, message_cell)
  IN IF ~addr_slice.ok THEN addr_slice
     ELSE
  LET std == extract_std_address(addr_slice.val)
  IN IF ~std.ok THEN Err(Str("Can't extract account address"))
     ELSE
  LET wc == std.val.wc
      addr == std.val.addr
      is_special == wc = masterchainId /\ is_special_smartcontract(emulator.config, addr)
  IN IF ~block_account_unpack(shard_account_cell.val)
     THEN Err(Str("Can't unpack shard account"))
     ELSE Ok([account |-> [wc |-> wc, addr |-> addr, is_special |-> is_special,
                           state |-> shard_account_cell.val],
              message_cell |-> message_cell])

\* CellBuilder().store_ref(total_state).store_bits(hash).store_long(lt).finalize()
new_shard_account_cell(account) ==
  [ct |-> "shard_account", total_state |-> account.total_state,
   last_trans_hash |-> account.last_trans_hash_, last_trans_lt |-> account.last_trans_lt_,
   serializable |-> account.total_state.serializable]

classify_outcome_rejected_as_error(result) ==
  IF result.kind = "success"
  THEN success_response(
         base64_encode(std_boc_serialize(result.transaction).val),
         base64_encode(std_boc_serialize(new_shard_account_cell(result.account)).val),
         result.vm_log)
  ELSE error_response(Msg("Emulate transaction failed: ", "not accepted"))

\* what follows the engine call: the response for its result
classify_outcome(result) ==
  IF result.kind = "error"
  THEN error_response(Msg("Emulate transaction failed: ", result.message))
  ELSE IF result.kind = "external_not_accepted"
  THEN external_not_accepted_response(result.vm_log, result.vm_exit_code)
  ELSE LET trans_boc == std_boc_serialize(result.transaction)
       IN IF ~trans_boc.ok
          THEN error_response(Msg("Can't serialize Transaction to boc", trans_boc.val))
          ELSE
       LET trans_boc_b64 == base64_encode(trans_boc.val)
           new_shard_account_boc == std_boc_serialize(new_shard_account_cell(result.account))
       IN IF ~new_shard_account_boc.ok
          THEN error_response(Msg("Can't serialize ShardAccount to boc",
                                  new_shard_account_boc.val))
          ELSE success_response(trans_boc_b64,
                                base64_encode(new_shard_account_boc.val),
                                result.vm_log)

\* emulator->emulate_transaction(std::move(account), message_cell, 0, 0, tr_ord)
EmulateCall(account, message_cell, result) ==
  [fn |-> "emulate_transaction", account |-> account, message |-> message_cell,
   utime |-> 0, lt |-> 0, trans_type |-> "tr_ord", result |-> result]

\* the whole call: its response and the engine calls it made, `result` being
\* what the engine hands back if it is called
transaction_emulator_emulate_transaction(emulator, shard_account_boc, message_boc, result) ==
  LET prepared == emulate_prepare(emulator, shard_account_boc, message_boc)
  IN IF ~prepared.ok
     THEN [response |-> error_response(prepared.val), engine |-> <<>>]
     ELSE [response |-> classify_outcome(result),
           engine |-> <<EmulateCall(prepared.val.account, prepared.val.message_cell, result)>>]

\* ------------------------------------------------------------------------
\* tvm_emulator_run_get_method
\* ------------------------------------------------------------------------
\* text that parses as the JSON value j
JsonText(j) == [enc |-> "json", json |-> j]

\* td::json_decode
json_decode(text) ==
  IF text.enc = "json" THEN Ok(text.json) ELSE Err("Unexpected symbol while parsing JSON")

\* TvmEmulator::run_get_method's answer
GetMethodResult(stack, gas_used, code, vm_log, missing_library) ==
  [stack |-> stack, gas_used |-> gas_used, code |-> code, vm_log |-> vm_log,
   missing_library |-> missing_library]

\* td::ConstBitPtr: null, or pointing at 256 bits
NullBitPtr == [isnull |-> TRUE]
BitPtr(bytes) == [isnull |-> FALSE, bits |-> bytes]

RECURSIVE decode_stack_skipping(_)
decode_stack_skipping(stack_json_array) ==
  IF stack_json_array = <<>> THEN Ok(<<>>)
  ELSE LET stack_entry == from_emulator_api(Head(stack_json_array))
           rest == decode_stack_skipping(Tail(stack_json_array))
       IN IF ~stack_entry.ok THEN rest ELSE Ok(<<stack_entry.val>> \o rest.val)

RECURSIVE decode_stack(_)
\* the loop over stack_json_array: the first element that fails ends the call
decode_stack(stack_json_array) ==
  IF stack_json_array = <<>> THEN Ok(<<>>)
  ELSE LET stack_entry == from_emulator_api(Head(stack_json_array))
       IN IF ~stack_entry.ok
          THEN Err(Msg("Error parsing stack: ", stack_entry.val))
          ELSE LET rest == decode_stack(Tail(stack_json_array))
               IN IF ~rest.ok THEN rest ELSE Ok(<<stack_entry.val>> \o rest.val)

\* the process aborted inside the call: nothing is returned
ProcessAborted == [aborted |-> TRUE]

get_method_response_library_swapped(result) ==
  LET stack == StackJsonable(result.stack)
  IN IF ~stack.done THEN ProcessAborted
     ELSE [success |-> TRUE, stack |-> stack.json, gas_used |-> dec_string(result.gas_used),
           vm_exit_code |-> result.code, vm_log |-> result.vm_log,
           missing_library |->
             IF result.missing_library.isnull THEN JString(to_hex(<<>>)) ELSE JNull]

\* the JSON built from the engine's answer
get_method_response(result) ==
  LET stack == StackJsonable(result.stack)
  IN IF ~stack.done THEN ProcessAborted
     ELSE [success |-> TRUE, stack |-> stack.json, gas_used |-> dec_string(result.gas_used),
           vm_exit_code |-> result.code, vm_log |-> result.vm_log,
           missing_library |->
             IF result.missing_library.isnull THEN JNull
             ELSE JString(to_hex(result.missing_library.bits))]

\* emulator->run_get_method(method_id, stack)
GetMethodCall(method_id, stack, result) ==
  [fn |-> "run_get_method", method_id |-> method_id, stack |-> stack, result |-> result]

\* the whole call: its response and the engine calls it made
tvm_emulator_run_get_method(method_id, stack_json_raw, result) ==
  LET stack_json == json_decode(stack_json_raw)
  IN IF ~stack_json.ok
     THEN [response |-> error_response(Msg("Couldn't decode stack json: ", stack_json.val)),
           engine |-> <<>>]
     ELSE IF stack_json.val.jt # "Array"
     THEN [response |-> error_response(Str("Stack of type array expected")), engine |-> <<>>]
     ELSE LET stack_entries == decode_stack(stack_json.val.arr)
          IN IF ~stack_entries.ok
             THEN [response |-> error_response(stack_entries.val), engine |-> <<>>]
             ELSE [response |-> get_method_response(result),
                   engine |-> <<GetMethodCall(method_id, stack_entries.val, result)>>]

\* ------------------------------------------------------------------------
\* Engine handles
\* ------------------------------------------------------------------------
\* a config-params cell: whether block::Config::unpack accepts it, and the
\* special smart contracts it lists
ConfigCell(id, wf) ==
  [ct |-> "config", id |-> id, unpackable |-> wf,
   special |-> IF id = 1 THEN {2} ELSE {}, serializable |-> TRUE]

\* the root cell of a libraries dictionary
DictCell(id) == [ct |-> "dict", id |-> id, serializable |-> TRUE]

\* vm::Dictionary(root, 256) and the empty vm::Dictionary{256}
Dictionary(root) == [empty |-> FALSE, root |-> root, key_bits |-> 256]
EmptyDictionary == [empty |-> TRUE, key_bits |-> 256]

\* block::Config over a root cell
Config(root) == [root |-> root]

\* td::BitArray<256> of zero bits
ZeroSeed == [i \in 1..(SeedHexLen \div 2) |-> 0]

\* a null handle / a null const char*
NullHandle == [kind |-> "nullptr"]
NullPtr == [enc |-> "nullptr"]

\* emulator::TransactionEmulator(config, vm_log_verbosity)
TransactionEmulator(config, vm_log_verbosity) ==
  [kind |-> "TransactionEmulator", config |-> config,
   vm_log_verbosity |-> vm_log_verbosity, unixtime |-> 0, lt |-> 0,
   rand_seed |-> ZeroSeed, ignore_chksig |-> FALSE, libs |-> EmptyDictionary]

\* emulator::TvmEmulator(code, data) followed by set_vm_verbosity_level
TvmEmulator(code, data, vm_log_verbosity) ==
  [kind |-> "TvmEmulator", code |-> code, data |-> data,
   vm_log_verbosity |-> vm_log_verbosity, libraries |-> EmptyDictionary,
   c7 |-> [set |-> FALSE], gas_limit |-> 0]

decode_config(config_boc) ==
  LET config_params_decoded == base64_decode(config_boc)
  IN IF ~config_params_decoded.ok
     THEN Err(Msg("Can't decode base64 config params boc: ", config_params_decoded.val))
     ELSE LET config_params_cell == std_boc_deserialize(config_params_decoded.val)
          IN IF ~config_params_cell.ok
             THEN Err(Msg("Can't deserialize config params boc: ", config_params_cell.val))
             ELSE IF ~config_params_cell.val.unpackable
             THEN Err(Msg("Can't unpack config params: ", "invalid config"))
             ELSE Ok(Config(config_params_cell.val))

transaction_emulator_create(config_params_boc, vm_log_verbosity) ==
  LET global_config_res == decode_config(config_params_boc)
  IN IF ~global_config_res.ok THEN NullHandle
     ELSE TransactionEmulator(global_config_res.val, vm_log_verbosity)

tvm_emulator_create(code, data, vm_log_verbosity) ==
  LET code_decoded == base64_decode(code)
  IN IF ~code_decoded.ok THEN NullHandle
     ELSE LET code_cell == std_boc_deserialize(code_decoded.val)
          IN IF ~code_cell.ok THEN NullHandle
             ELSE LET data_decoded == base64_decode(data)
                  IN IF ~data_decoded.ok THEN NullHandle
                     ELSE LET data_cell == std_boc_deserialize(data_decoded.val)
                          IN IF ~data_cell.ok THEN NullHandle
                             ELSE TvmEmulator(code_cell.val, data_cell.val, vm_log_verbosity)

\* ------------------------------------------------------------------------
\* Setters: the value returned and the handle afterwards
\* ------------------------------------------------------------------------
Returned(ret, emulator) == [ret |-> ret, emulator |-> emulator]

transaction_emulator_set_unixtime(emulator, unixtime) ==
  Returned(TRUE, [emulator EXCEPT !.unixtime = unixtime])

transaction_emulator_set_lt(emulator, lt) ==
  Returned(TRUE, [emulator EXCEPT !.lt = lt])

transaction_emulator_set_rand_seed_unchecked(emulator, rand_seed_hex) ==
  LET rand_seed_bytes == hex_decode(rand_seed_hex)
  IN IF ~rand_seed_bytes.ok THEN Returned(FALSE, emulator)
     ELSE Returned(TRUE, [emulator EXCEPT !.rand_seed = rand_seed_bytes.val])

transaction_emulator_set_rand_seed(emulator, rand_seed_hex) ==
  IF SliceSize(rand_seed_hex) # SeedHexLen THEN Returned(FALSE, emulator)
  ELSE LET rand_seed_bytes == hex_decode(rand_seed_hex)
       IN IF ~rand_seed_bytes.ok THEN Returned(FALSE, emulator)
          ELSE Returned(TRUE, [emulator EXCEPT !.rand_seed = rand_seed_bytes.val])

transaction_emulator_set_ignore_chksig(emulator, ignore_chksig) ==
  Returned(TRUE, [emulator EXCEPT !.ignore_chksig = ignore_chksig])

transaction_emulator_set_config_resetting(emulator, config_boc) ==
  LET global_config_res == decode_config(config_boc)
  IN IF ~global_config_res.ok THEN Returned(FALSE, emulator)
     ELSE Returned(TRUE, TransactionEmulator(global_config_res.val,
                                             emulator.vm_log_verbosity))

transaction_emulator_set_config(emulator, config_boc) ==
  LET global_config_res == decode_config(config_boc)
  IN IF ~global_config_res.ok THEN Returned(FALSE, emulator)
     ELSE Returned(TRUE, [emulator EXCEPT !.config = global_config_res.val])

transaction_emulator_set_libs(emulator, shardchain_libs_boc) ==
  IF shardchain_libs_boc # NullPtr
  THEN LET shardchain_libs_decoded == base64_decode(shardchain_libs_boc)
       IN IF ~shardchain_libs_decoded.ok THEN Returned(FALSE, emulator)
          ELSE LET shardchain_libs_cell == std_boc_deserialize(shardchain_libs_decoded.val)
               IN IF ~shardchain_libs_cell.ok THEN Returned(FALSE, emulator)
                  ELSE Returned(TRUE, [emulator EXCEPT
                                         !.libs = Dictionary(shardchain_libs_cell.val)])
  ELSE Returned(TRUE, emulator)

tvm_emulator_set_libraries(emulator, libs_boc) ==
  LET libs_decoded == base64_decode(libs_boc)
  IN IF ~libs_decoded.ok THEN Returned(FALSE, emulator)
     ELSE LET libs_cell == std_boc_deserialize(libs_decoded.val)
          IN IF ~libs_cell.ok THEN Returned(FALSE, emulator)
             ELSE Returned(TRUE, [emulator EXCEPT !.libraries = Dictionary(libs_cell.val)])

\* text that is the form of a standard address
AddrText(wc, addr) == [enc |-> "address", wc |-> wc, addr |-> addr]

\* block::StdAddress::parse
StdAddress_parse(text) ==
  IF text.enc = "address" THEN Ok([wc |-> text.wc, addr |-> text.addr])
  ELSE Err("failed to parse account address")

tvm_emulator_set_c7(emulator, address, unixtime, balance, rand_seed_hex, config_boc) ==
  LET std_address == StdAddress_parse(address)
  IN IF ~std_address.ok THEN Returned(FALSE, emulator)
     ELSE
  LET config_params_decoded == base64_decode(config_boc)
  IN IF ~config_params_decoded.ok THEN Returned(FALSE, emulator)
     ELSE
  LET config_params_cell == std_boc_deserialize(config_params_decoded.val)
  IN IF ~config_params_cell.ok THEN Returned(FALSE, emulator)
     ELSE IF ~config_params_cell.val.unpackable THEN Returned(FALSE, emulator)
     ELSE IF SliceSize(rand_seed_hex) # SeedHexLen THEN Returned(FALSE, emulator)
     ELSE
  LET rand_seed_bytes == hex_decode(rand_seed_hex)
  IN IF ~rand_seed_bytes.ok THEN Returned(FALSE, emulator)
     ELSE Returned(TRUE, [emulator EXCEPT
            !.c7 = [set |-> TRUE, address |-> std_address.val, unixtime |-> unixtime,
                    balance |-> balance, rand_seed |-> rand_seed_bytes.val,
                    config |-> Config(config_params_cell.val)]])

tvm_emulator_set_gas_limit(emulator, gas_limit) ==
  Returned(TRUE, [emulator EXCEPT !.gas_limit = gas_limit])

\* ------------------------------------------------------------------------
\* Inputs of the boundary calls
\* ------------------------------------------------------------------------
NotBase64 == Str("not base64!")

BocText(cell) == base64_encode(BocBytes(cell, TRUE))

ConfigBocs ==
  {NotBase64, base64_encode(RawBytes), BocText(ConfigCell(1, FALSE))}
    \cup {BocText(ConfigCell(i, TRUE)) : i \in 1..NumConfigs}

LibsBocs ==
  {NotBase64, base64_encode(RawBytes)} \cup {BocText(DictCell(i)) : i \in 1..NumLibs}

\* uint32_t unixtime
Times == 0..MaxTime

\* uint64_t lt, uint64_t balance, int64_t gas_limit
Scalars == 0..MaxVal

SeedHexes ==
  {Plain([i \in 1..SeedHexLen |-> "0"]),
   Plain([i \in 1..SeedHexLen |-> IF i % 2 = 1 THEN "a" ELSE "F"]),
   Plain([i \in 1..(SeedHexLen - 1) |-> "a"]),
   Plain([i \in 1..(SeedHexLen + 2) |-> "a"]),
   Plain([i \in 1..SeedHexLen |-> IF i = 1 THEN "g" ELSE "a"])}

\* the seeds and configs tried with tvm_emulator_set_c7
C7SeedHexes ==
  {Plain([i \in 1..SeedHexLen |-> IF i % 2 = 1 THEN "a" ELSE "F"]),
   Plain([i \in 1..(SeedHexLen - 1) |-> "a"]),
   Plain([i \in 1..SeedHexLen |-> IF i = 1 THEN "g" ELSE "a"])}

C7ConfigBocs ==
  {NotBase64, base64_encode(RawBytes), BocText(ConfigCell(1, FALSE)),
   BocText(ConfigCell(1, TRUE))}

AddressTexts == {AddrText(0, 1), Str("not an address")}

Addrs == {AddrStd(0, 1), AddrStd(masterchainId, 2), AddrVar}

MsgCells ==
  {MsgCell(tag, TRUE, d) :
     tag \in {"int_msg_info", "ext_in_msg_info", "ext_out_msg_info"}, d \in Addrs}
    \cup {MsgCell(tag, FALSE, AddrVar) : tag \in {"int_msg_info", "ext_in_msg_info"}}
    \cup {MsgCell("none", FALSE, AddrVar)}

MessageBocs ==
  {NotBase64, base64_encode(RawBytes)} \cup {BocText(m) : m \in MsgCells}

ShardAccountCells ==
  {ShardAccountCell(FALSE, AccountNone, FALSE),
   ShardAccountCell(TRUE, AccountRecord(FALSE, AddrVar), TRUE),
   ShardAccountCell(TRUE, AccountRecord(TRUE, AddrStd(0, 1)), FALSE)}
    \cup {ShardAccountCell(TRUE, AccountNone, ok) : ok \in BOOLEAN}
    \cup {ShardAccountCell(TRUE, AccountRecord(TRUE, a), TRUE) : a \in Addrs}

ShardAccountBocs ==
  {NotBase64, base64_encode(RawBytes)} \cup {BocText(c) : c \in ShardAccountCells}

\* what the engine may hand back to an emulate call
EmulationResults ==
  {EmuError("engine error"),
   EmuNotAccepted(Str(""), 0),
   EmuNotAccepted(Str("vm log"), 33)}
    \cup {EmuSuccess(DataCell(<<1>>, ser[1]),
                     [total_state |-> DataCell(<<0>>, ser[2]), last_trans_hash_ |-> 7,
                      last_trans_lt_ |-> 1],
                     Str("vm log")) : ser \in {<<TRUE, TRUE>>, <<FALSE, TRUE>>, <<TRUE, FALSE>>}}

StackJsonElements ==
  {TypeValueObject("number", JString(Plain(<<"7">>))),
   TypeValueObject("tuple", JArray(<<TypeValueObject("null", JNull)>>)),
   TypeValueObject("bogus", JNull)}

StackJsonTexts ==
  {Str("not json"), JsonText(JNull), JsonText(TypeValueObject("null", JNull))}
    \cup {JsonText(JArray(a)) : a \in SeqsUpTo(StackJsonElements, MaxTupleLen)}

LibraryId == [i \in 1..(SeedHexLen \div 2) |-> IF i % 2 = 1 THEN 171 ELSE 5]

\* what the engine may hand back to a get-method call
GetMethodResults ==
  {GetMethodResult(stack, 0, code, Str("vm log"), lib) :
     stack \in {<<>>, <<IntEntry(1), BuilderEntry>>, <<CellEntry(HugeCell)>>},
     code \in {0, 11},
     lib \in {NullBitPtr, BitPtr(LibraryId)}}

MethodIds == {0}

\* ------------------------------------------------------------------------
\* State
\* ------------------------------------------------------------------------
VARIABLES
  emulator,   \* the engine handle under test; NullHandle when there is none
  op,         \* the boundary function called last
  args,       \* its arguments
  ret,        \* what it returned
  engine      \* the engine calls it made

vars == <<emulator, op, args, ret, engine>>

IsTransactionEmulator == emulator.kind = "TransactionEmulator"
IsTvmEmulator == emulator.kind = "TvmEmulator"

\* a handle fresh from transaction_emulator_create or tvm_emulator_create
Init ==
  /\ engine = <<>>
  /\ \/ \E config_boc \in ConfigBocs :
          /\ op = "transaction_emulator_create"
          /\ args = [config_params_boc |-> config_boc, vm_log_verbosity |-> 0]
          /\ emulator = transaction_emulator_create(config_boc, 0)
          /\ ret = emulator
     \/ \E code \in {NotBase64, BocText(DataCell(<<1>>, TRUE))},
           data \in {base64_encode(RawBytes), BocText(DataCell(<<>>, TRUE))} :
          /\ op = "tvm_emulator_create"
          /\ args = [code |-> code, data |-> data, vm_log_verbosity |-> 0]
          /\ emulator = tvm_emulator_create(code, data, 0)
          /\ ret = emulator

\* no call is in progress: the caller has taken the last response
Idle == op = "idle"

\* the caller takes the response and frees it; the handle stays
Return ==
  /\ op # "idle"
  /\ emulator # NullHandle
  /\ op' = "idle"
  /\ args' = <<>>
  /\ ret' = <<>>
  /\ engine' = <<>>
  /\ UNCHANGED emulator

\* a call of a setter: `r` is its Returned(...)
SetterCall(name, a, r) ==
  /\ Idle
  /\ op' = name
  /\ args' = a
  /\ ret' = r.ret
  /\ emulator' = r.emulator
  /\ engine' = <<>>

\* the engine hands back a result only when it is called
EmulationResultsFor(shard_account_boc, message_boc) ==
  IF emulate_prepare(emulator, shard_account_boc, message_boc).ok
  THEN EmulationResults ELSE {EmuError("not called")}

EmulateTransaction ==
  /\ Idle
  /\ IsTransactionEmulator
  /\ \E shard_account_boc \in ShardAccountBocs, message_boc \in MessageBocs :
       \E result \in EmulationResultsFor(shard_account_boc, message_boc) :
         LET r == transaction_emulator_emulate_transaction(
                    emulator, shard_account_boc, message_boc, result)
         IN /\ op' = "transaction_emulator_emulate_transaction"
            /\ args' = [shard_account_boc |-> shard_account_boc,
                        message_boc |-> message_boc]
            /\ ret' = r.response
            /\ engine' = r.engine
            /\ UNCHANGED emulator

SetUnixtime ==
  /\ IsTransactionEmulator
  /\ \E unixtime \in Times :
       SetterCall("transaction_emulator_set_unixtime", [unixtime |-> unixtime],
                  transaction_emulator_set_unixtime(emulator, unixtime))

SetLt ==
  /\ IsTransactionEmulator
  /\ \E lt \in Scalars :
       SetterCall("transaction_emulator_set_lt", [lt |-> lt],
                  transaction_emulator_set_lt(emulator, lt))

SetRandSeed ==
  /\ IsTransactionEmulator
  /\ \E rand_seed_hex \in SeedHexes :
       SetterCall("transaction_emulator_set_rand_seed", [rand_seed_hex |-> rand_seed_hex],
                  transaction_emulator_set_rand_seed(emulator, rand_seed_hex))

SetIgnoreChksig ==
  /\ IsTransactionEmulator
  /\ \E ignore_chksig \in BOOLEAN :
       SetterCall("transaction_emulator_set_ignore_chksig",
                  [ignore_chksig |-> ignore_chksig],
                  transaction_emulator_set_ignore_chksig(emulator, ignore_chksig))

SetConfig ==
  /\ IsTransactionEmulator
  /\ \E config_boc \in ConfigBocs :
       SetterCall("transaction_emulator_set_config", [config_boc |-> config_boc],
                  transaction_emulator_set_config(emulator, config_boc))

SetLibs ==
  /\ IsTransactionEmulator
  /\ \E shardchain_libs_boc \in LibsBocs \cup {NullPtr} :
       SetterCall("transaction_emulator_set_libs",
                  [shardchain_libs_boc |-> shardchain_libs_boc],
                  transaction_emulator_set_libs(emulator, shardchain_libs_boc))

TvmSetLibraries ==
  /\ IsTvmEmulator
  /\ \E libs_boc \in LibsBocs :
       SetterCall("tvm_emulator_set_libraries", [libs_boc |-> libs_boc],
                  tvm_emulator_set_libraries(emulator, libs_boc))

TvmSetC7 ==
  /\ IsTvmEmulator
  /\ \E address \in AddressTexts, unixtime \in Times, balance \in Scalars,
        rand_seed_hex \in C7SeedHexes, config_boc \in C7ConfigBocs :
       SetterCall("tvm_emulator_set_c7",
                  [address |-> address, unixtime |-> unixtime, balance |-> balance,
                   rand_seed_hex |-> rand_seed_hex, config_boc |-> config_boc],
                  tvm_emulator_set_c7(emulator, address, unixtime, balance,
                                      rand_seed_hex, config_boc))

TvmSetGasLimit ==
  /\ IsTvmEmulator
  /\ \E gas_limit \in Scalars :
       SetterCall("tvm_emulator_set_gas_limit", [gas_limit |-> gas_limit],
                  tvm_emulator_set_gas_limit(emulator, gas_limit))

\* the engine hands back a result only when it is called
GetMethodResultsFor(method_id, stack_json_raw) ==
  IF tvm_emulator_run_get_method(method_id, stack_json_raw,
                                 GetMethodResult(<<>>, 0, 0, Str(""), NullBitPtr)).engine # <<>>
  THEN GetMethodResults ELSE {GetMethodResult(<<>>, 0, 0, Str(""), NullBitPtr)}

TvmRunGetMethod ==
  /\ Idle
  /\ IsTvmEmulator
  /\ \E method_id \in MethodIds, stack_json_raw \in StackJsonTexts :
       \E result \in GetMethodResultsFor(method_id, stack_json_raw) :
         LET r == tvm_emulator_run_get_method(method_id, stack_json_raw, result)
         IN /\ op' = "tvm_emulator_run_get_method"
            /\ args' = [method_id |-> method_id, stack_json_raw |-> stack_json_raw]
            /\ ret' = r.response
            /\ engine' = r.engine
            /\ UNCHANGED emulator

Next ==
  \/ EmulateTransaction
  \/ SetUnixtime
  \/ SetLt
  \/ SetRandSeed
  \/ SetIgnoreChksig
  \/ SetConfig
  \/ SetLibs
  \/ TvmSetLibraries
  \/ TvmSetC7
  \/ TvmSetGasLimit
  \/ TvmRunGetMethod
  \/ Return

Spec == Init /\ [][Next]_vars

\* ------------------------------------------------------------------------
\* The codec on its own: encode an entry, decode what was encoded, decode
\* arbitrary JSON
\* ------------------------------------------------------------------------
\* an entry to encode, or a JSON value to decode
InitCodec ==
  /\ emulator = NullHandle
  /\ op = "input"
  /\ \/ \E entry \in StackValues : args = [entry |-> entry]
     \/ \E json \in JsonInputs : args = [json |-> json]
  /\ ret = <<>>
  /\ engine = <<>>

\* StackEntryJsonable(entry) is written to a JSON builder
Store ==
  /\ op = "input"
  /\ "entry" \in DOMAIN args
  /\ op' = "store"
  /\ ret' = store(args.entry)
  /\ UNCHANGED <<emulator, args, engine>>

\* the JSON just written is handed to from_emulator_api
DecodeStored ==
  /\ op = "store"
  /\ ret.done
  /\ op' = "decode_stored"
  /\ args' = [entry |-> args.entry, json |-> ret.json]
  /\ ret' = from_emulator_api(ret.json)
  /\ UNCHANGED <<emulator, engine>>

\* from_emulator_api on a JSON value
Decode ==
  /\ op = "input"
  /\ "json" \in DOMAIN args
  /\ op' = "from_emulator_api"
  /\ ret' = from_emulator_api(args.json)
  /\ UNCHANGED <<emulator, args, engine>>

NextCodec == Store \/ DecodeStored \/ Decode

SpecCodec == InitCodec /\ [][NextCodec]_vars

\* ------------------------------------------------------------------------
\* Vocabulary of the properties
\* ------------------------------------------------------------------------
\* the text is the base64 form of a bag of cells with a valid checksum
IsBocText(text) == text.enc = "base64" /\ text.bytes.fmt = "boc" /\ text.bytes.crc32c

\* the root cell of such a text
CellOf(text) == text.bytes.root

\* the three response shapes of transaction emulation
SuccessShape(r) ==
  DOMAIN r = {"success", "transaction", "shard_account", "vm_log"} /\ r.success = TRUE

RejectedShape(r) ==
  DOMAIN r = {"success", "error", "vm_log", "vm_exit_code"} /\ r.success = FALSE

FailureShape(r) == DOMAIN r = {"success", "error"} /\ r.success = FALSE

\* a message that says something
NonEmptyText(text) == text.enc = "text" /\ text.chars # <<>> /\ text.chars[1] # ""

Emulated == op = "transaction_emulator_emulate_transaction"
GetMethodRun == op = "tvm_emulator_run_get_method"

\* the message and shard-account cells of an emulate call whose bocs decode
ArgMessage == CellOf(args.message_boc)
ArgShard == CellOf(args.shard_account_boc)

ArgsDecode ==
  /\ IsBocText(args.message_boc)
  /\ IsBocText(args.shard_account_boc)
  /\ ArgShard.wellformed

InboundTags == {"ext_in_msg_info", "int_msg_info"}

\* some step of an emulate call before the engine call fails on its arguments
EmulateStepFails ==
  \/ ~IsBocText(args.message_boc)
  \/ ~IsBocText(args.shard_account_boc)
  \/ ~ArgShard.wellformed
  \/ /\ ArgShard.account.tag = "account_none"
     /\ \/ ArgMessage.tag \notin InboundTags
        \/ ~ArgMessage.wellformed
        \/ ArgMessage.dest.tag # "addr_std"
  \/ /\ ArgShard.account.tag = "account"
     /\ \/ ~ArgShard.account.wellformed
        \/ ArgShard.account.addr.tag # "addr_std"
  \/ ~ArgShard.state_ok

\* the stack argument of a get-method call does not decode
StackStepFails ==
  \/ args.stack_json_raw.enc # "json"
  \/ args.stack_json_raw.json.jt # "Array"
  \/ \E i \in DOMAIN args.stack_json_raw.json.arr :
       ~from_emulator_api(args.stack_json_raw.json.arr[i]).ok

\* ------------------------------------------------------------------------
\* Properties
\* ------------------------------------------------------------------------

\* C1: every call of transaction_emulator_emulate_transaction returns exactly
\* one of the three response shapes; transaction and shard_account are
\* present exactly when success is true, and vm_exit_code only in the
\* Rejected shape.
C1_ResponseShapes ==
  Emulated =>
    /\ SuccessShape(ret) \/ RejectedShape(ret) \/ FailureShape(ret)
    /\ "transaction" \in DOMAIN ret <=> ret.success
    /\ "shard_account" \in DOMAIN ret <=> ret.success
    /\ "vm_exit_code" \in DOMAIN ret => RejectedShape(ret)

\* an emulate call that the engine answered with success, encoded as Success
C1_Witness ==
  /\ Emulated
  /\ engine # <<>>
  /\ engine[1].result.kind = "success"
  /\ SuccessShape(ret)

\* C2: in emulate and run_get_method a failure of any step before the engine
\* call ends the call with the Failure shape and a non-empty message, without
\* an engine call; the engine is called at most once, and only after every
\* one of those steps succeeded.
C2_FailFast ==
  /\ Emulated =>
       /\ Len(engine) <= 1
       /\ EmulateStepFails => FailureShape(ret) /\ NonEmptyText(ret.error) /\ engine = <<>>
       /\ engine # <<>> => ~EmulateStepFails
  /\ GetMethodRun =>
       /\ Len(engine) <= 1
       /\ StackStepFails => FailureShape(ret) /\ NonEmptyText(ret.error) /\ engine = <<>>
       /\ engine # <<>> => ~StackStepFails

\* a get-method call whose stack has a good element followed by a bad one
C2_Witness ==
  /\ GetMethodRun
  /\ args.stack_json_raw.enc = "json"
  /\ args.stack_json_raw.json.jt = "Array"
  /\ Len(args.stack_json_raw.json.arr) = 2
  /\ from_emulator_api(args.stack_json_raw.json.arr[1]).ok
  /\ ~from_emulator_api(args.stack_json_raw.json.arr[2]).ok
  /\ FailureShape(ret)

\* C3: with an account_none state the account handed to the engine has the
\* address of the inbound message's destination; with an existing account
\* record it has the record's own address, whatever the message's destination.
C3_AddressResolution ==
  (Emulated /\ engine # <<>>) =>
    LET account == engine[1].account
        HasAddressOf(addr_slice) ==
          LET std == extract_std_address(addr_slice)
          IN /\ std.ok
             /\ account.wc = std.val.wc
             /\ account.addr = std.val.addr
    IN /\ (ArgShard.account.tag = "account_none" /\ ArgMessage.tag \in InboundTags) =>
            HasAddressOf(ArgMessage.dest)
       /\ ArgShard.account.tag = "account" =>
            HasAddressOf(ArgShard.account.addr)

\* the engine was called for an existing account whose address differs from
\* the destination of the message
C3_Witness ==
  /\ Emulated
  /\ engine # <<>>
  /\ ArgShard.account.tag = "account"
  /\ ArgMessage.wellformed
  /\ ArgMessage.dest.tag = "addr_std"
  /\ ArgMessage.dest # ArgShard.account.addr
  /\ engine[1].account.addr = ArgShard.account.addr.addr

\* C4: with an account_none state and a message whose header tag is neither
\* external-inbound nor internal, the call returns the Failure shape that
\* reports the unsupported message kind and does not call the engine.
C4_UnsupportedMessageKind ==
  (Emulated /\ ArgsDecode /\ ArgShard.account.tag = "account_none"
     /\ ArgMessage.tag \notin InboundTags) =>
    /\ ret = [success |-> FALSE, error |-> Str("Only ext in and int message are supported")]
    /\ engine = <<>>

\* an external-outbound message met an account_none state
C4_Witness ==
  /\ Emulated
  /\ ArgsDecode
  /\ ArgShard.account.tag = "account_none"
  /\ ArgMessage.tag = "ext_out_msg_info"
  /\ FailureShape(ret)

\* C5: an engine result of external-not-accepted with exit code c and log l is
\* returned as the Rejected shape with that code and log; the Failure shape
\* with the engine-failure message is returned only for an engine error.
C5_RejectedIsNotFailure ==
  Emulated =>
    /\ (engine # <<>> /\ engine[1].result.kind = "external_not_accepted") =>
         ret = [success |-> FALSE,
                error |-> Str("External message not accepted by smart contract"),
                vm_log |-> engine[1].result.vm_log,
                vm_exit_code |-> engine[1].result.vm_exit_code]
    /\ (FailureShape(ret) /\ ret.error.chars[1] = "Emulate transaction failed: ") =>
         engine # <<>> /\ engine[1].result.kind = "error"

\* the engine rejected the message with exit code 33
C5_Witness ==
  /\ Emulated
  /\ engine # <<>>
  /\ engine[1].result.kind = "external_not_accepted"
  /\ engine[1].result.vm_exit_code = 33
  /\ RejectedShape(ret)

\* the five supported variants, nested elements included
RECURSIVE Supported(_)
Supported(v) ==
  \/ v.t \in {"t_cell", "t_slice", "t_int", "t_null"}
  \/ v.t = "t_tuple" /\ \A i \in DOMAIN v.elems : Supported(v.elems[i])

\* what a stack value is compared by: a cell by its serialized form, a slice
\* by the serialized form of what remains of it, a tuple element by element
RECURSIVE Content(_)
Content(v) ==
  CASE v.t = "t_cell" -> [t |-> "t_cell", boc |-> std_boc_serialize(v.cell)]
    [] v.t = "t_slice" ->
         [t |-> "t_slice",
          bits |-> SubSeq(v.slice.cell.bits, v.slice.bits_st + 1, Len(v.slice.cell.bits))]
    [] v.t = "t_tuple" ->
         [t |-> "t_tuple", elems |-> [i \in DOMAIN v.elems |-> Content(v.elems[i])]]
    [] OTHER -> v

\* C6: for every stack value of the five variants, decoding the JSON that
\* encoding it produced succeeds and yields an equal value: tuples element by
\* element in the same order, cells and slices by their serialized content.
C6_RoundTrip ==
  (op = "decode_stored" /\ Supported(args.entry)) =>
    /\ ret.ok
    /\ Content(ret.val) = Content(args.entry)

\* a tuple holding a partly read slice and a nested tuple went round
C6_Witness ==
  /\ op = "decode_stored"
  /\ args.entry.t = "t_tuple"
  /\ Len(args.entry.elems) = 2
  /\ args.entry.elems[1].t = "t_slice"
  /\ args.entry.elems[1].slice.bits_st > 0
  /\ args.entry.elems[2].t = "t_tuple"
  /\ args.entry.elems[2].elems # <<>>
  /\ ret.ok

KnownTypes == {Str("cell"), Str("cell_slice"), Str("number"), Str("tuple"), Str("null")}

\* the JSON value is an object with a string field "type"
HasStringType(j) ==
  /\ j.jt = "Object"
  /\ HasField(j.fields, "type")
  /\ FirstField(j.fields, "type").jt = "String"

\* a JSON value that is no stack entry: not an object, no string type, a type
\* outside the five, or a tuple with such an element at any depth
RECURSIVE Malformed(_)
Malformed(j) ==
  \/ ~HasStringType(j)
  \/ FirstField(j.fields, "type").str \notin KnownTypes
  \/ /\ FirstField(j.fields, "type").str = Str("tuple")
     /\ HasField(j.fields, "value")
     /\ FirstField(j.fields, "value").jt = "Array"
     /\ \E i \in DOMAIN FirstField(j.fields, "value").arr :
          Malformed(FirstField(j.fields, "value").arr[i])

\* C7: from_emulator_api returns an error for every JSON value that is not an
\* object, has no string type field, or has a type outside {cell, cell_slice,
\* number, tuple, null}, and for every tuple holding such an element at any
\* depth.
C7_DecodeFailsClosed ==
  (op = "from_emulator_api" /\ Malformed(args.json)) => ~ret.ok

\* a tuple whose nested tuple holds an element of unknown type, after a good
\* element, was refused
C7_Witness ==
  /\ op = "from_emulator_api"
  /\ HasStringType(args.json)
  /\ FirstField(args.json.fields, "type").str = Str("tuple")
  /\ HasField(args.json.fields, "value")
  /\ FirstField(args.json.fields, "value").jt = "Array"
  /\ LET arr == FirstField(args.json.fields, "value").arr
     IN /\ Len(arr) = 2
        /\ ~Malformed(arr[1])
        /\ HasStringType(arr[2])
        /\ FirstField(arr[2].fields, "type").str = Str("tuple")
        /\ Malformed(arr[2])
  /\ ~ret.ok

\* a JSON object with a string type field and a value field
TypeValueShape(j) ==
  /\ HasStringType(j)
  /\ HasField(j.fields, "value")

\* C8: StackEntryJsonable::store is total: for every stack entry it writes an
\* object with a type and a value and never aborts; an unsupported variant is
\* written with type "UNSUPPORTED STACK ENTRY TYPE" and value null.
C8_EncodeTotal ==
  op = "store" =>
    /\ ret.done
    /\ TypeValueShape(ret.json)
    /\ args.entry.t \notin {"t_cell", "t_slice", "t_int", "t_tuple", "t_null"} =>
         ret.json = TypeValueObject("UNSUPPORTED STACK ENTRY TYPE", JNull)

\* C9: a get-method response built after the stack decoded has success true
\* whatever the exit code, carries stack, gas_used, vm_exit_code, vm_log and
\* missing_library, and missing_library is null exactly when the engine
\* reported none and else the hex text of the library's 256 bits.
C9_GetMethodResponse ==
  (GetMethodRun /\ engine # <<>> /\ ret # ProcessAborted) =>
    LET lib == engine[1].result.missing_library
    IN /\ DOMAIN ret = {"success", "stack", "gas_used", "vm_exit_code", "vm_log",
                        "missing_library"}
       /\ ret.success = TRUE
       /\ ret.vm_exit_code = engine[1].result.code
       /\ ret.missing_library = JNull <=> lib.isnull
       /\ ~lib.isnull =>
            /\ ret.missing_library.jt = "String"
            /\ Len(ret.missing_library.str.chars) = SeedHexLen
            /\ hex_decode(ret.missing_library.str) = Ok(lib.bits)

\* a run that ended with a non-zero exit code and a missing library
C9_Witness ==
  /\ GetMethodRun
  /\ engine # <<>>
  /\ ret # ProcessAborted
  /\ engine[1].result.code # 0
  /\ ~engine[1].result.missing_library.isnull
  /\ ret.success

FailingSetters ==
  {"transaction_emulator_set_rand_seed", "transaction_emulator_set_config",
   "transaction_emulator_set_libs", "tvm_emulator_set_libraries", "tvm_emulator_set_c7"}

\* a seed text of exactly SeedHexLen hex characters
GoodSeed(text) ==
  /\ text.enc = "text"
  /\ Len(text.chars) = SeedHexLen
  /\ \A i \in 1..Len(text.chars) : IsHex(text.chars[i])

\* a config text that decodes, deserializes and unpacks
GoodConfig(text) == IsBocText(text) /\ CellOf(text).unpackable

\* the input of setter o is malformed
MalformedInput(o, a) ==
  CASE o = "transaction_emulator_set_rand_seed" -> ~GoodSeed(a.rand_seed_hex)
    [] o = "transaction_emulator_set_config" -> ~GoodConfig(a.config_boc)
    [] o = "transaction_emulator_set_libs" ->
         a.shardchain_libs_boc # NullPtr /\ ~IsBocText(a.shardchain_libs_boc)
    [] o = "tvm_emulator_set_libraries" -> ~IsBocText(a.libs_boc)
    [] o = "tvm_emulator_set_c7" ->
         \/ a.address.enc # "address"
         \/ ~GoodConfig(a.config_boc)
         \/ ~GoodSeed(a.rand_seed_hex)

\* handle e holds the value decoded from the input of setter o
UpdatedWithDecoded(o, a, e) ==
  CASE o = "transaction_emulator_set_rand_seed" ->
         GoodSeed(a.rand_seed_hex) /\ to_hex(e.rand_seed) = to_hex(hex_decode(a.rand_seed_hex).val)
    [] o = "transaction_emulator_set_config" ->
         GoodConfig(a.config_boc) /\ e.config = Config(CellOf(a.config_boc))
    [] o = "transaction_emulator_set_libs" ->
         IsBocText(a.shardchain_libs_boc) /\ e.libs = Dictionary(CellOf(a.shardchain_libs_boc))
    [] o = "tvm_emulator_set_libraries" ->
         IsBocText(a.libs_boc) /\ e.libraries = Dictionary(CellOf(a.libs_boc))
    [] o = "tvm_emulator_set_c7" ->
         /\ a.address.enc = "address" /\ GoodConfig(a.config_boc) /\ GoodSeed(a.rand_seed_hex)
         /\ e.c7 = [set |-> TRUE,
                    address |-> [wc |-> a.address.wc, addr |-> a.address.addr],
                    unixtime |-> a.unixtime, balance |-> a.balance,
                    rand_seed |-> hex_decode(a.rand_seed_hex).val,
                    config |-> Config(CellOf(a.config_boc))]

\* C10 as stated: a setter that can fail returns false on malformed input and
\* then leaves the handle unchanged, and returns true only when the handle
\* was updated with the decoded value.
C10_SetterAllOrNothing ==
  [][op' \in FailingSetters =>
       /\ MalformedInput(op', args') => ret' = FALSE
       /\ ret' = FALSE => emulator' = emulator
       /\ ret' = TRUE => UpdatedWithDecoded(op', args', emulator')]_vars

\* C10 amended: as above, except that transaction_emulator_set_libs with an
\* absent (null) libraries argument returns true and leaves the handle
\* unchanged.
C10_SetterAllOrNothingOrAbsent ==
  [][op' \in FailingSetters =>
       /\ MalformedInput(op', args') => ret' = FALSE
       /\ ret' = FALSE => emulator' = emulator
       /\ ret' = TRUE =>
            \/ UpdatedWithDecoded(op', args', emulator')
            \/ /\ op' = "transaction_emulator_set_libs"
               /\ args'.shardchain_libs_boc = NullPtr
               /\ emulator' = emulator]_vars

\* a malformed seed was refused by a handle that holds a seed set before
C10_Witness ==
  /\ op = "transaction_emulator_set_rand_seed"
  /\ ~GoodSeed(args.rand_seed_hex)
  /\ ret = FALSE
  /\ emulator.rand_seed # ZeroSeed

\* the configuration fields of a transaction-emulator handle and their setters
ConfigFields == {"unixtime", "lt", "rand_seed", "ignore_chksig", "config", "libs"}

FieldOf(o) ==
  CASE o = "transaction_emulator_set_unixtime" -> "unixtime"
    [] o = "transaction_emulator_set_lt" -> "lt"
    [] o = "transaction_emulator_set_rand_seed" -> "rand_seed"
    [] o = "transaction_emulator_set_ignore_chksig" -> "ignore_chksig"
    [] o = "transaction_emulator_set_config" -> "config"
    [] o = "transaction_emulator_set_libs" -> "libs"
    [] OTHER -> "none"

\* handle e holds in the field of setter o the value its argument gave
HoldsGiven(o, a, e) ==
  CASE o = "transaction_emulator_set_unixtime" -> e.unixtime = a.unixtime
    [] o = "transaction_emulator_set_lt" -> e.lt = a.lt
    [] o = "transaction_emulator_set_ignore_chksig" -> e.ignore_chksig = a.ignore_chksig
    [] OTHER -> UpdatedWithDecoded(o, a, e)

\* a handle fresh from a successful create holds the creation-time values
CreationValues ==
  (op = "transaction_emulator_create" /\ emulator # NullHandle) =>
    emulator = TransactionEmulator(Config(CellOf(args.config_params_boc)),
                                   args.vm_log_verbosity)

\* calling set-config again with the input of the call just made changes nothing
SetConfigRepeats(o, a, r, e) ==
  o = "transaction_emulator_set_config" =>
    transaction_emulator_set_config(e, a.config_boc) = Returned(r, e)

\* C11 as stated: on a transaction-emulator handle every configuration field
\* starts at its creation-time value, takes the value given by each successful
\* call of its own setter, and is left unchanged by every other step (emulate
\* calls, setters of other fields, failed setters); repeating set-config with
\* the same input leaves the state as after the first call.
C11_FieldsPersist ==
  /\ CreationValues
  /\ [][emulator.kind = "TransactionEmulator" =>
          /\ \A f \in ConfigFields :
               IF FieldOf(op') = f /\ ret' = TRUE
               THEN HoldsGiven(op', args', emulator')
               ELSE emulator'[f] = emulator[f]
          /\ SetConfigRepeats(op', args', ret', emulator')]_vars

\* the call gives its field a value: it succeeded, and it is not a set-libs
\* call made with an absent libraries argument
GivesValue(o, a, r) ==
  /\ r = TRUE
  /\ o = "transaction_emulator_set_libs" => a.shardchain_libs_boc # NullPtr

\* C11 amended: as above, except that a successful set-libs call with an absent
\* (null) libraries argument gives no value and leaves the library set as it
\* was.
C11_FieldsPersistUnlessAbsent ==
  /\ CreationValues
  /\ [][emulator.kind = "TransactionEmulator" =>
          /\ \A f \in ConfigFields :
               IF FieldOf(op') = f /\ GivesValue(op', args', ret')
               THEN HoldsGiven(op', args', emulator')
               ELSE emulator'[f] = emulator[f]
          /\ SetConfigRepeats(op', args', ret', emulator')]_vars

\* an emulate call reached the engine on a handle whose time, logical time,
\* seed, signature-check bypass and library set were all set by earlier calls
C11_Witness ==
  /\ Emulated
  /\ engine # <<>>
  /\ emulator.unixtime # 0
  /\ emulator.lt # 0
  /\ emulator.rand_seed # ZeroSeed
  /\ emulator.ignore_chksig
  /\ emulator.libs # EmptyDictionary

\* C12: with an existing account record the message kind is not checked and
\* the message is not unpacked: whenever the shard account itself is accepted
\* (it unpacks, its address is standard), the engine is invoked with the
\* account's own address and the original message cell, whatever the tag of
\* the message and whether or not its header would unpack.
C12_KindCheckOnlyForNone ==
  (Emulated /\ ArgsDecode /\ ArgShard.account.tag = "account"
     /\ account_unpack(ArgShard.account).ok
     /\ extract_std_address(ArgShard.account.addr).ok
     /\ block_account_unpack(ArgShard)) =>
    /\ engine # <<>>
    /\ engine[1].message = ArgMessage
    /\ engine[1].account.wc = ArgShard.account.addr.wc
    /\ engine[1].account.addr = ArgShard.account.addr.addr

\* the engine was invoked for an existing account with a message whose tag is
\* no inbound kind and whose header does not unpack
C12_Witness ==
  /\ Emulated
  /\ ArgsDecode
  /\ ArgShard.account.tag = "account"
  /\ ArgMessage.tag \notin InboundTags
  /\ ~msg_unpack(ArgMessage).ok
  /\ engine # <<>>
  /\ engine[1].message = ArgMessage

====
